---- MODULE Spec2Model ----
(***************************************************************************)
(* Trade simulation engine of TDR-Forex: get_orders_M1 of                  *)
(* utils/backtest.py with the lot sizing of utils/strategies.py.           *)
(*                                                                         *)
(* Units.  Every float of the program is kept as an exact integer:         *)
(*   time   minutes since 1970-01-01 00:00, a Thursday (a pandas Timestamp) *)
(*   price  points (the symbol's `point`); PipPoint = point*10, so one pip *)
(*          is PointsPerPip points                                         *)
(*   pips   points as well (tenths of a pip)                               *)
(*   lots   hundredths of a lot (round(LotSize, 2) is a whole number)      *)
(*   money  cents (round(x, 2) is a whole number)                          *)
(* A float that may be NaN is a sequence: << >> is NaN, <<v>> is v.        *)
(* A Python local that may be unbound is a sequence too: << >> is unbound. *)
(***************************************************************************)
EXTENDS Integers, Sequences, FiniteSets, TLC

\* ---------------------------------------------------------------- bounds
MaxBars == 4
StartMinute == 10078
BaseOpen == 150000
OpenStep == 3
BigMove == 600
MaxLotStep == 2
MaxTrades == 3
MaxIntervals == 2
MaxTime == 3
LossUnit == 5
StatDeposit == 100

\* ------------------------------------------------------- program constants
PointsPerPip == 10
minLotSize == 1
maxLotSize == 500
MinutesPerDay == 24 * 60
LookaheadBars == 60 * 24 * 30

\* ------------------------------------------------------------ NaN numbers
NaN == << >>
Num(v) == << v >>
IsNaN(x) == x = << >>
Val(x) == x[1]
Unbound == << >>
IsBound(x) == x # << >>

\* x + y of two floats
AddF(x, y) == IF IsNaN(x) \/ IsNaN(y) THEN NaN ELSE Num(Val(x) + Val(y))

\* round(n/d) to a whole number, d > 0, halves to even as Python's round
RoundDiv(n, d) ==
    LET q == n \div d
        r == n % d
    IN  IF 2 * r < d THEN q
        ELSE IF 2 * r > d THEN q + 1
        ELSE IF q % 2 = 0 THEN q ELSE q + 1

\* --------------------------------------------------------- the run's input
\* symbol profile: info_symbols[symbol] (point as 1/point_inv, spread in
\* points, swaps in tenths of the broker's unit)
SymbolProfiles ==
    { [point_inv |-> 1000, spread |-> 10, swap_long |-> -75, swap_short |-> 25] }

\* strategy_params; FixedLotSize, MinBetweenTrades and MaxMinutesOpenTrade may
\* be None (None is << >>, a value v is <<v>>); the dynamic lot is run
\* without a holding limit and without a minimum spacing
None == << >>
StrategyParams ==
    { [DynamicLotSize |-> c[1], EquityPercent10 |-> 25, FixedLotSize |-> <<10>>,
       MaxOpenTrades |-> IF c[2] = None THEN 1 ELSE 2,
       MaxMinutesOpenTrade |-> c[2], MinBetweenTrades |-> c[3]] :
          c \in { d \in BOOLEAN \X {None, <<0>>} \X {None, <<1>>} :
                    d[1] => (d[2] = None /\ d[3] = None) } }

\* a strategy that holds a trade for one minute at most
HoldingParams ==
    { [DynamicLotSize |-> FALSE, EquityPercent10 |-> 25, FixedLotSize |-> <<10>>,
       MaxOpenTrades |-> 2, MaxMinutesOpenTrade |-> <<1>>, MinBetweenTrades |-> None] }

InitialDeposits == { 1000000 }

\* stop and target distances the strategy writes on every bar, in pips
RiskColumns ==
    { [SL_long |-> 250, TP_long |-> 100, SL_short |-> 250, TP_short |-> 100] }

\* the shape of a bar around its open, and its close-condition flags
Flat == [up |-> 0, down |-> 0, ccl |-> FALSE, ccs |-> FALSE]
Up == [up |-> BigMove * PointsPerPip, down |-> 0, ccl |-> FALSE, ccs |-> FALSE]
Down == [up |-> 0, down |-> BigMove * PointsPerPip, ccl |-> FALSE, ccs |-> FALSE]
Wide == [up |-> BigMove * PointsPerPip, down |-> BigMove * PointsPerPip,
         ccl |-> FALSE, ccs |-> FALSE]
FlagShort == [up |-> 0, down |-> 0, ccl |-> FALSE, ccs |-> TRUE]

\* the bars of a price-driven run: signals arrive on flat bars
PriceBars ==
    { [sig |-> 0, sh |-> Flat], [sig |-> 1, sh |-> Flat], [sig |-> -1, sh |-> Flat],
      [sig |-> 0, sh |-> Up], [sig |-> 0, sh |-> Down], [sig |-> 0, sh |-> Wide] }

\* the bars of a flag-driven run: the short close condition is set on some
\* bars, Short signals arrive on such a bar and Long signals on a flat one
FlagBars ==
    { [sig |-> 0, sh |-> Flat], [sig |-> 1, sh |-> Flat],
      [sig |-> 0, sh |-> FlagShort], [sig |-> -1, sh |-> FlagShort] }

MakeBar(i, sig, sh, risk) ==
    LET o == BaseOpen + (i - 1) * OpenStep
    IN  [time |-> StartMinute + (i - 1), open |-> o,
         high |-> o + sh.up, low |-> o - sh.down, signal |-> sig,
         SL_long |-> Num(risk.SL_long), TP_long |-> risk.TP_long,
         SL_short |-> Num(risk.SL_short), TP_short |-> risk.TP_short,
         cond_close_long |-> sh.ccl, cond_close_short |-> sh.ccs]

\* the optional columns entry_price_long and entry_price_short, present on
\* every bar of a run or on none: a limit price one OpenStep above the open
WithEntryPrices(b) ==
    b @@ [entry_price_long |-> b.open + OpenStep, entry_price_short |-> b.open + OpenStep]

\* the bars of a run that carries the two entry price columns
EntryPriceBars ==
    { [sig |-> 0, sh |-> Flat], [sig |-> 1, sh |-> Flat], [sig |-> -1, sh |-> Flat],
      [sig |-> 0, sh |-> Up] }

VARIABLES
    data_M1,          \* the bar sequence
    orders,           \* its rows that carry a signal
    symbol_info,      \* info_symbols[symbol]
    strategy_params,
    InitialDeposit,
    pc,               \* "loop", "crashed" (an exception left the function), "done"
    n_order,          \* position of the for loop in orders, from 1
    n_orders,
    exit_time_prev,
    AccountEquity,
    n_order_counter,
    exit_time, exit_price, swap, pips,   \* locals that outlive an iteration
    book,             \* the rows of the order book
    Balance,          \* the Balance column, set when the loop is over
    log,              \* one entry per candidate: what the admission test saw
    args,             \* the arguments of a call of a pure function
    ret               \* what that call returned or raised

vars == << data_M1, orders, symbol_info, strategy_params, InitialDeposit, pc, n_order,
           n_orders, exit_time_prev, AccountEquity, n_order_counter,
           exit_time, exit_price, swap, pips, book, Balance, log, args, ret >>

\* ------------------------------------------------------------ lot sizing
\* CalcLotSize: the lot before the limits, as a fraction num/den of a
\* hundredth of a lot (AccountEquity * EquityPercent / 100 / StopLoss)
RawLot(DynamicLotSize, AccountEquity_, EquityPercent10, StopLoss, FixedLotSize) ==
    IF DynamicLotSize /\ StopLoss > 0
    THEN [num |-> Val(AccountEquity_) * EquityPercent10, den |-> 1000 * StopLoss]
    ELSE [num |-> Val(FixedLotSize), den |-> 1]

\* the two limits, then round(LotSize, 2)
ClampLot(raw) ==
    LET lo == IF raw.num < minLotSize * raw.den
              THEN [num |-> minLotSize, den |-> 1] ELSE raw
        hi == IF lo.num > maxLotSize * lo.den
              THEN [num |-> maxLotSize, den |-> 1] ELSE lo
    IN  RoundDiv(hi.num, hi.den)

\* A NaN equity makes MaxRiskAmount and LotSize NaN; NaN < min and NaN > max
\* are both False and round(NaN, 2) is NaN.
CalcLotSize(DynamicLotSize, AccountEquity_, EquityPercent10, StopLoss, FixedLotSize) ==
    IF DynamicLotSize /\ StopLoss > 0 /\ IsNaN(AccountEquity_)
    THEN NaN
    ELSE Num(ClampLot(RawLot(DynamicLotSize, AccountEquity_, EquityPercent10,
                             StopLoss, FixedLotSize)))

\* FixedLotSize = None reaches `LotSize < minLotSize` when the dynamic branch
\* is not taken: None < 0.01 raises TypeError
CalcLotSizeRaises(DynamicLotSize, StopLoss, FixedLotSize) ==
    ~(DynamicLotSize /\ StopLoss > 0) /\ FixedLotSize = None

\* ------------------------------------------------------- the loop's reads
Min2(a, b) == IF a < b THEN a ELSE b
HeadRows(s, n) == SubSeq(s, 1, Min2(Len(s), n))

\* data_M1.loc[data_M1.signal.isin([-1,1])]
IsOrder(b) == b.signal \in {-1, 1}
OrdersOf(d) == SelectSeq(d, IsOrder)

PipPoint == PointsPerPip

\* (entry_time-exit_time_prev).days*24*60 + (entry_time-exit_time_prev).seconds/60/60
\* as whole + frac60/60; .days is the floor and .seconds the remainder of the day
MinutesElapsed(et, prev) ==
    IF prev = None
    THEN [whole |-> 1000000000, frac60 |-> 0]
    ELSE LET d == et - prev[1]
             dd == d \div MinutesPerDay
             seconds == (d % MinutesPerDay) * 60
         IN  [whole |-> dd * 24 * 60 + (seconds \div 60) \div 60,
              frac60 |-> (seconds \div 60) % 60]

\* the first generation, backtesting.py: days*24*60 + seconds/60, in minutes
MinutesElapsedOld(et, prev) ==
    IF prev = None
    THEN [whole |-> 1000000000, frac60 |-> 0]
    ELSE [whole |-> ((et - prev[1]) \div MinutesPerDay) * 24 * 60
                    + (((et - prev[1]) % MinutesPerDay) * 60) \div 60,
          frac60 |-> 0]

\* minutes_elapsed >= MinBetweenTrades
SpacingOkOrEqual(me, mbt) == me.whole > mbt \/ (me.whole = mbt /\ me.frac60 >= 0)

\* minutes_elapsed > MinBetweenTrades
SpacingOk(me, mbt) == me.whole > mbt \/ (me.whole = mbt /\ me.frac60 > 0)

\* n_orders after lines 111-116
CountOpen(n, et, prev) ==
    IF prev # None
    THEN IF et < prev[1] THEN n + 1 ELSE 1
    ELSE n

\* the test of line 119
AdmissionTest(n, mot, me, mbt) == n <= mot /\ SpacingOk(me, mbt)

\* ---------------------------------------------------------- the exit scan
\* data_M1.loc[data_M1.time>=entry_time].head(60*24*30)
Window(d, et) ==
    LET FromEntry(b) == b.time >= et
    IN  HeadRows(SelectSeq(d, FromEntry), LookaheadBars)

\* drawdown_pips_max > StopLoss; the Short side subtracts spread*PipPoint, a
\* price, from a number of pips; against a NaN StopLoss it is False
cond_stop_loss(b, ty, ep, sl, sym) ==
    /\ ~IsNaN(sl)
    /\ IF ty = "Long"
       THEN ep - b.low > Val(sl) * PipPoint
       ELSE (b.high - ep) * sym.point_inv - sym.spread * PipPoint
                > Val(sl) * PipPoint * sym.point_inv

\* profit_pips_max > TakeProfit
cond_take_profit(b, ty, ep, tp, sym) ==
    IF ty = "Long"
    THEN b.high - ep > tp * PipPoint
    ELSE (ep - b.low) * sym.point_inv - sym.spread * PipPoint
             > tp * PipPoint * sym.point_inv

\* cond_close of the row at position i of df_temp (its index is i - 1)
cond_close(b, i, ty, mm) ==
    LET flag == IF ty = "Long" THEN b.cond_close_long ELSE b.cond_close_short
    IN  IF mm # None THEN flag \/ (i - 1 > mm[1]) ELSE flag

\* the three flags of every row of df_temp
Flags(win, ty, ep, sl, tp, sym, mm) ==
    [i \in 1..Len(win) |->
        [SL |-> cond_stop_loss(win[i], ty, ep, sl, sym),
         close |-> cond_close(win[i], i, ty, mm),
         TP |-> cond_take_profit(win[i], ty, ep, tp, sym)]]

cond_close_order(f) == f.close \/ f.SL \/ f.TP

\* the rows with cond_close_order == 1, as positions in df_temp
RECURSIVE Hits(_, _)
Hits(fl, i) ==
    IF i > Len(fl) THEN << >>
    ELSE IF cond_close_order(fl[i]) THEN << i >> \o Hits(fl, i + 1)
    ELSE Hits(fl, i + 1)

\* df_temp[df_temp.cond_close_order==1].head(2)
Temp(fl) == HeadRows(Hits(fl, 1), 2)

\* --------------------------------------------------------- the settlement
\* temp.loc[0] read where temp.loc[1] is meant
ExitRowFirst(tmp) == tmp[1]

\* temp.loc[1]: the row whose flags, time and open settle the trade, as a
\* position in df_temp
ExitRow(tmp) == tmp[2]

\* the branches tested in the order take-profit, close, stop-loss
ExitBranchTPFirst(cSL, cClose, cTP) ==
    IF cTP THEN "TP" ELSE IF cClose THEN "close" ELSE IF cSL THEN "SL" ELSE "none"

\* the if / elif / elif of lines 182-196
ExitBranch(cSL, cClose, cTP) ==
    IF cSL THEN "SL" ELSE IF cClose THEN "close" ELSE IF cTP THEN "TP" ELSE "none"

\* the stop price without the direction factor type_bool
SLExitPriceNoDir(ep, sl, tb) == ep - sl * PipPoint

SLExitPrice(ep, sl, tb) == ep - sl * PipPoint * tb
TPExitPrice(ep, tp, tb) == ep + tp * PipPoint * tb
CloseExitPrice(open, ty, sym) == open + (IF ty = "Short" THEN sym.spread ELSE 0)
SLPips(sl) == -sl * PipPoint
TPPips(tp) == tp * PipPoint
ClosePips(xp, ep, tb) == (xp - ep) * tb

DateOf(t) == t \div MinutesPerDay

\* round(days*daily_swap*LotSize/0.10, 2), in cents
SwapOf(dd, ds, lot) ==
    IF IsNaN(lot) THEN NaN ELSE Num(RoundDiv(dd * ds * Val(lot), 10))

\* round(pips*LotSize/0.10+swap, 2), in cents
ProfitOf(pp, lot, sw) ==
    IF IsNaN(lot) \/ IsNaN(sw) THEN NaN ELSE Num(Val(pp) * Val(lot) + Val(sw))

\* ------------------------------------------------ one pass of the loop body
\* Each stage hands its values on as arguments, in the order of the code.

\* lines 96-103 and the entry price of lines 129-132 / 144-147
TypeOf(tb) == IF tb = -1 THEN "Short" ELSE "Long"
DailySwapOf(ty, sym) == IF ty = "Long" THEN sym.swap_long ELSE sym.swap_short
EntryPrice(ty, open, sym) == IF ty = "Long" THEN open + sym.spread ELSE open

\* the column entry_price_long / entry_price_short read as the entry price
\* without the spread of a Long
EntryPriceOfNoSpread(ty, o, sym) ==
    IF ty = "Long"
    THEN IF "entry_price_long" \in DOMAIN o
         THEN o.entry_price_long ELSE EntryPrice(ty, o.open, sym)
    ELSE IF "entry_price_short" \in DOMAIN o
         THEN o.entry_price_short ELSE EntryPrice(ty, o.open, sym)

\* lines 129-132 and 144-147: 'entry_price_long' in data_M1.columns; the row
\* df_temp.loc[0] is the bar of the order
EntryPriceOf(ty, o, sym) ==
    IF ty = "Long"
    THEN IF "entry_price_long" \in DOMAIN o
         THEN o.entry_price_long + sym.spread ELSE EntryPrice(ty, o.open, sym)
    ELSE IF "entry_price_short" \in DOMAIN o
         THEN o.entry_price_short ELSE EntryPrice(ty, o.open, sym)

Entry(o, sym) ==
    [type_bool |-> o.signal, type_ |-> TypeOf(o.signal),
     daily_swap |-> DailySwapOf(TypeOf(o.signal), sym),
     entry_time |-> o.time,
     entry_price |-> EntryPriceOf(TypeOf(o.signal), o, sym)]

\* lines 60-62
MinBetweenOf(sp) ==
    IF sp.MinBetweenTrades = None THEN 0 ELSE sp.MinBetweenTrades[1]

\* lines 105-119 when exit_time_prev is never read back (it stays None)
AdmitIgnoringPrev(e, sp, n, prev) ==
    [n_orders |-> CountOpen(n, e.entry_time, None),
     MinBetweenTrades |-> MinBetweenOf(sp),
     spacing_ok |-> SpacingOk(MinutesElapsed(e.entry_time, None), MinBetweenOf(sp)),
     admitted |-> AdmissionTest(CountOpen(n, e.entry_time, None), sp.MaxOpenTrades,
                                MinutesElapsed(e.entry_time, None), MinBetweenOf(sp))]

\* lines 105-119
Admit(e, sp, n, prev) ==
    [n_orders |-> CountOpen(n, e.entry_time, prev),
     MinBetweenTrades |-> MinBetweenOf(sp),
     spacing_ok |-> SpacingOk(MinutesElapsed(e.entry_time, prev), MinBetweenOf(sp)),
     admitted |-> AdmissionTest(CountOpen(n, e.entry_time, prev), sp.MaxOpenTrades,
                                MinutesElapsed(e.entry_time, prev), MinBetweenOf(sp))]

\* the test of backtesting.py for a candidate that found n_orders and
\* exit_time_prev as the second generation's run left them
AdmitOld(et, sp, n, prev) ==
    AdmissionTest(CountOpen(n, et, prev), sp.MaxOpenTrades,
                  MinutesElapsedOld(et, prev), MinBetweenOf(sp))

\* lines 127-128 / 142-143 and 160
StopLossOf(ty, b) == IF ty = "Long" THEN b.SL_long ELSE b.SL_short
TakeProfitOf(ty, b) == IF ty = "Long" THEN b.TP_long ELSE b.TP_short

\* the stop distance of a bar is a number or NaN; StopLoss > 0 is False for
\* NaN, and CalcLotSize takes the fixed lot
Risk(e, win, sp, eq) ==
    [StopLoss |-> StopLossOf(e.type_, win[1]),
     TakeProfit |-> TakeProfitOf(e.type_, win[1]),
     LotSize |-> IF IsNaN(StopLossOf(e.type_, win[1]))
                 THEN CalcLotSize(FALSE, eq, sp.EquityPercent10, 0, sp.FixedLotSize)
                 ELSE CalcLotSize(sp.DynamicLotSize, eq, sp.EquityPercent10,
                                  Val(StopLossOf(e.type_, win[1])), sp.FixedLotSize)]

\* lines 163-170
ScanOf(fl) == [fl |-> fl, temp |-> Temp(fl)]
Scan(e, k, win, sym, sp) ==
    ScanOf(Flags(win, e.type_, e.entry_price, k.StopLoss, k.TakeProfit, sym,
                 sp.MaxMinutesOpenTrade))

\* lines 174-196; without an exit the four locals keep what they held
BranchOf(sc) ==
    IF Len(sc.temp) = 2
    THEN ExitBranch(sc.fl[ExitRow(sc.temp)].SL, sc.fl[ExitRow(sc.temp)].close,
                    sc.fl[ExitRow(sc.temp)].TP)
    ELSE "none"

ExitTimeOf(br, b, old) == IF br = "none" THEN old ELSE Num(b.time)

ExitPriceOf(br, b, e, k, sym, old) ==
    CASE br = "SL" -> Num(SLExitPrice(e.entry_price, Val(k.StopLoss), e.type_bool))
      [] br = "close" -> Num(CloseExitPrice(b.open, e.type_, sym))
      [] br = "TP" -> Num(TPExitPrice(e.entry_price, k.TakeProfit, e.type_bool))
      [] OTHER -> old

PipsOf(br, xp, e, k, old) ==
    CASE br = "SL" -> Num(SLPips(Val(k.StopLoss)))
      [] br = "close" -> Num(ClosePips(xp[1], e.entry_price, e.type_bool))
      [] br = "TP" -> Num(TPPips(k.TakeProfit))
      [] OTHER -> old

\* lines 198-205
DaysOf(xt, et) == DateOf(xt[1]) - DateOf(et)

Money(e, k, sc, b, br, xt, xp, pp, sw) ==
    [found |-> Len(sc.temp) = 2, branch |-> br,
     flags |-> IF Len(sc.temp) = 2 THEN sc.fl[ExitRow(sc.temp)]
               ELSE [SL |-> FALSE, close |-> FALSE, TP |-> FALSE],
     exit_open |-> b.open,
     exit_time |-> xt, exit_price |-> xp, pips |-> pp, swap |-> sw,
     profit |-> IF Len(sc.temp) = 2 THEN ProfitOf(pp, k.LotSize, sw) ELSE NaN]

Settle3(e, k, sc, b, br, xt, xp, pp, oldsw) ==
    Money(e, k, sc, b, br, xt, xp, pp,
          IF Len(sc.temp) = 2
          THEN SwapOf(DaysOf(xt, e.entry_time), e.daily_swap, k.LotSize)
          ELSE oldsw)

Settle2(e, k, sc, b, br, xt, xp, sym, oldpp, oldsw) ==
    Settle3(e, k, sc, b, br, xt, xp, PipsOf(br, xp, e, k, oldpp), oldsw)

Settle1(e, k, sc, b, br, sym, old) ==
    Settle2(e, k, sc, b, br, ExitTimeOf(br, b, old.exit_time),
            ExitPriceOf(br, b, e, k, sym, old.exit_price), sym, old.pips, old.swap)

\* b is temp.loc[1] when there is one
Settle(e, k, win, sc, sym, old) ==
    Settle1(e, k, sc, IF Len(sc.temp) = 2 THEN win[ExitRow(sc.temp)] ELSE win[1],
            BranchOf(sc), sym, old)

HitTimes(win, tmp) == [j \in 1..Len(tmp) |-> win[tmp[j]].time]

Gather(e, a, k, sc, win, m) ==
    [type_bool |-> e.type_bool, type_ |-> e.type_, entry_time |-> e.entry_time,
     entry_price |-> e.entry_price,
     n_orders |-> a.n_orders, MinBetweenTrades |-> a.MinBetweenTrades,
     spacing_ok |-> a.spacing_ok, admitted |-> a.admitted,
     StopLoss |-> k.StopLoss, TakeProfit |-> k.TakeProfit, LotSize |-> k.LotSize,
     hits |-> HitTimes(win, sc.temp), hit_flags |-> [j \in 1..Len(sc.temp) |-> sc.fl[sc.temp[j]]],
     window |-> [j \in 1..Len(win) |-> [time |-> win[j].time, flags |-> sc.fl[j]]],
     found |-> m.found, branch |-> m.branch, flags |-> m.flags,
     exit_open |-> m.exit_open, exit_time |-> m.exit_time,
     exit_price |-> m.exit_price, pips |-> m.pips, swap |-> m.swap,
     profit |-> m.profit]

Pass4(e, k, sc, win, sym, sp, n, prev, old) ==
    Gather(e, Admit(e, sp, n, prev), k, sc, win, Settle(e, k, win, sc, sym, old))

Pass3(e, k, win, sym, sp, n, prev, old) ==
    Pass4(e, k, Scan(e, k, win, sym, sp), win, sym, sp, n, prev, old)

Pass2(e, win, sym, sp, n, prev, eq, old) ==
    Pass3(e, Risk(e, win, sp, eq), win, sym, sp, n, prev, old)

Pass1(e, d, sym, sp, n, prev, eq, old) ==
    Pass2(e, Window(d, e.entry_time), sym, sp, n, prev, eq, old)

Iteration ==
    Pass1(Entry(orders[n_order], symbol_info), data_M1, symbol_info,
          strategy_params, n_orders, exit_time_prev, AccountEquity,
          [exit_time |-> exit_time, exit_price |-> exit_price,
           pips |-> pips, swap |-> swap])

\* book.loc[n_order] = [...]
Row(it) ==
    [label |-> n_order, order |-> n_order_counter, type |-> it.type_,
     volume |-> it.LotSize, entry_time |-> it.entry_time,
     entry_price |-> it.entry_price,
     SL |-> IF IsNaN(it.StopLoss) THEN NaN
            ELSE Num(it.entry_price - Val(it.StopLoss) * PipPoint * it.type_bool),
     TP |-> it.entry_price + it.TakeProfit * PipPoint * it.type_bool,
     exit_time |-> it.exit_time, exit_price |-> it.exit_price, comission |-> 0,
     swap |-> it.swap, profit |-> it.profit, pips |-> it.pips,
     n_open_trades |-> it.n_orders]

\* what the iteration saw, kept for the properties
LogEntry(it) ==
    [label |-> n_order, time |-> it.entry_time, type |-> it.type_,
     prev |-> exit_time_prev, n_orders |-> it.n_orders,
     MinBetweenTrades |-> it.MinBetweenTrades,
     spacing_ok |-> it.spacing_ok, admitted |-> it.admitted,
     resolved |-> it.admitted /\ it.found,
     equity_in |-> AccountEquity, hits |-> it.hits, branch |-> it.branch,
     flags |-> it.flags, exit_open |-> it.exit_open,
     hit_flags |-> it.hit_flags, window |-> it.window,
     entry_price |-> it.entry_price,
     StopLoss |-> it.StopLoss, TakeProfit |-> it.TakeProfit]

\* ---------------------------------------------------------------- actions
InLoop == pc = "loop" /\ n_order <= Len(orders)

\* the test of line 119 for the candidate at hand
Admitted ==
    Admit(Entry(orders[n_order], symbol_info), strategy_params, n_orders,
          exit_time_prev).admitted

\* the candidate fails the test of line 119
Skip ==
    /\ InLoop
    /\ ~Admitted
    /\ LET it == Iteration
       IN  /\ ~it.admitted
           /\ n_orders' = it.n_orders
           /\ log' = Append(log, LogEntry(it))
    /\ n_order' = n_order + 1
    /\ UNCHANGED << args, ret >>
    /\ UNCHANGED << data_M1, orders, symbol_info, strategy_params, InitialDeposit,
                    pc, exit_time_prev, AccountEquity, n_order_counter,
                    exit_time, exit_price, swap, pips, book, Balance >>

\* admitted, and two rows of the window carry an exit condition
Resolve ==
    /\ InLoop
    /\ Admitted
    /\ LET it == Iteration
       IN  /\ it.admitted
           /\ it.found
           /\ n_orders' = it.n_orders
           /\ exit_time' = it.exit_time
           /\ exit_price' = it.exit_price
           /\ pips' = it.pips
           /\ swap' = it.swap
           /\ book' = Append(book, Row(it))
           /\ exit_time_prev' = it.exit_time
           /\ AccountEquity' = AddF(AccountEquity, it.profit)
           /\ log' = Append(log, LogEntry(it))
    /\ n_order_counter' = n_order_counter + 1
    /\ n_order' = n_order + 1
    /\ UNCHANGED << args, ret >>
    /\ UNCHANGED << data_M1, orders, symbol_info, strategy_params, InitialDeposit,
                    pc, Balance >>

\* admitted, no exit found: profit = np.nan, the row takes exit_time,
\* exit_price, swap and pips as an earlier iteration left them
LeaveOpen ==
    /\ InLoop
    /\ IsBound(exit_time)
    /\ Admitted
    /\ LET it == Iteration
       IN  /\ it.admitted
           /\ ~it.found
           /\ n_orders' = it.n_orders
           /\ book' = Append(book, Row(it))
           /\ exit_time_prev' = it.exit_time
           /\ AccountEquity' = AddF(AccountEquity, it.profit)
           /\ log' = Append(log, LogEntry(it))
    /\ n_order_counter' = n_order_counter + 1
    /\ n_order' = n_order + 1
    /\ UNCHANGED << args, ret >>
    /\ UNCHANGED << data_M1, orders, symbol_info, strategy_params, InitialDeposit,
                    pc, exit_time, exit_price, swap, pips, Balance >>

\* admitted, no exit found and no earlier iteration bound exit_time: building
\* the row raises UnboundLocalError and the function is left
Crash ==
    /\ InLoop
    /\ ~IsBound(exit_time)
    /\ Admitted
    /\ LET it == Iteration
       IN  /\ it.admitted
           /\ ~it.found
           /\ n_orders' = it.n_orders
           /\ log' = Append(log, LogEntry(it))
    /\ pc' = "crashed"
    /\ UNCHANGED << args, ret >>
    /\ UNCHANGED << data_M1, orders, symbol_info, strategy_params, InitialDeposit,
                    n_order, exit_time_prev, AccountEquity, n_order_counter,
                    exit_time, exit_price, swap, pips, book, Balance >>

\* book.profit.cumsum() + InitialDeposit; cumsum skips a NaN and leaves NaN
\* in its place
RECURSIVE SumProfit(_, _)
SumProfit(b, i) ==
    IF i = 0 THEN 0
    ELSE SumProfit(b, i - 1) + (IF IsNaN(b[i].profit) THEN 0 ELSE Val(b[i].profit))

CumSumBalance(b, dep) ==
    [i \in 1..Len(b) |->
        IF IsNaN(b[i].profit) THEN NaN ELSE Num(SumProfit(b, i) + dep)]

\* the loop is over: the Balance column, the files, return
Finish ==
    /\ pc = "loop"
    /\ n_order > Len(orders)
    /\ Balance' = CumSumBalance(book, InitialDeposit)
    /\ pc' = "done"
    /\ UNCHANGED << args, ret >>
    /\ UNCHANGED << data_M1, orders, symbol_info, strategy_params, InitialDeposit,
                    n_order, n_orders, exit_time_prev, AccountEquity,
                    n_order_counter, exit_time, exit_price, swap, pips, book, log >>

\* ------------------------------------------------------------------ Init
\* price-driven runs of MaxBars bars, flag-driven runs of one bar more, runs
\* with the entry price columns of one bar less, and runs of as many bars
\* whose stop distances are missing (NaN in SL_long and SL_short)
BarSeqs(risk) ==
    { [i \in 1..MaxBars |-> MakeBar(i, k[i].sig, k[i].sh, risk)] :
         k \in [1..MaxBars -> PriceBars] }
    \cup
    { [i \in 1..(MaxBars + 1) |-> MakeBar(i, k[i].sig, k[i].sh, risk)] :
         k \in [1..(MaxBars + 1) -> FlagBars] }
    \cup
    { [i \in 1..(MaxBars - 1) |-> WithEntryPrices(MakeBar(i, k[i].sig, k[i].sh, risk))] :
         k \in [1..(MaxBars - 1) -> EntryPriceBars] }
    \cup
    { [i \in 1..(MaxBars - 1) |->
          [MakeBar(i, k[i].sig, k[i].sh, risk) EXCEPT !.SL_long = NaN, !.SL_short = NaN]] :
         k \in [1..(MaxBars - 1) -> EntryPriceBars] }

\* a history with gaps: quiet bars two minutes apart, every other minute
\* missing
GapSeqs(risk) ==
    { [i \in 1..MaxBars |->
          [MakeBar(i, sig[i], Flat, risk) EXCEPT !.time = StartMinute + 2 * (i - 1)]] :
         sig \in [1..MaxBars -> {-1, 0, 1}] }

Init ==
    /\ symbol_info \in SymbolProfiles
    /\ InitialDeposit \in InitialDeposits
    /\ \/ /\ strategy_params \in StrategyParams
          /\ \E risk \in RiskColumns : data_M1 \in BarSeqs(risk)
       \/ /\ strategy_params \in HoldingParams
          /\ \E risk \in RiskColumns : data_M1 \in GapSeqs(risk)
    /\ orders = OrdersOf(data_M1)
    /\ pc = "loop"
    /\ n_order = 1
    /\ n_orders = 1
    /\ exit_time_prev = None
    /\ AccountEquity = Num(InitialDeposit)
    /\ n_order_counter = 1
    /\ exit_time = Unbound
    /\ exit_price = Unbound
    /\ swap = Unbound
    /\ pips = Unbound
    /\ book = << >>
    /\ Balance = << >>
    /\ log = << >>
    /\ args = Unbound
    /\ ret = Unbound

Next == Skip \/ Resolve \/ LeaveOpen \/ Crash \/ Finish

Spec == Init /\ [][Next]_vars

\* ------------------------------------------- calls of the pure functions
\* no run of get_orders_M1 is under way
EngineIdle ==
    /\ data_M1 = << >>
    /\ orders = << >>
    /\ symbol_info = Unbound
    /\ strategy_params = Unbound
    /\ InitialDeposit = Unbound
    /\ pc = "idle"
    /\ n_order = 1
    /\ n_orders = 1
    /\ exit_time_prev = None
    /\ AccountEquity = Unbound
    /\ n_order_counter = 1
    /\ exit_time = Unbound
    /\ exit_price = Unbound
    /\ swap = Unbound
    /\ pips = Unbound
    /\ book = << >>
    /\ Balance = << >>
    /\ log = << >>

engineVars == << data_M1, orders, symbol_info, strategy_params, InitialDeposit, pc,
                 n_order, n_orders, exit_time_prev, AccountEquity, n_order_counter,
                 exit_time, exit_price, swap, pips, book, Balance, log >>

\* the arguments of CalcLotSize: equities from nothing to a few deposits,
\* stop distances around zero and the strategies' own, the fixed lot of the
\* shipped strategies (None) and fixed lots below, inside and above the limits
LotArgs ==
    { [fn |-> "CalcLotSize", DynamicLotSize |-> dyn, AccountEquity |-> Num(k * dep),
       EquityPercent10 |-> 25, StopLoss |-> sl, FixedLotSize |-> fx] :
          dyn \in BOOLEAN, k \in 0..MaxLotStep, dep \in InitialDeposits,
          sl \in (-1..MaxLotStep) \cup { r.SL_long : r \in RiskColumns },
          fx \in {None, <<0>>, <<10>>, << 2 * maxLotSize >>} }

\* CalcLotSize(DynamicLotSize, AccountEquity, EquityPercent, StopLoss, FixedLotSize)
CalcLotSizeCall ==
    /\ args.fn = "CalcLotSize"
    /\ ret = Unbound
    /\ ret' = IF CalcLotSizeRaises(args.DynamicLotSize, args.StopLoss, args.FixedLotSize)
              THEN [raised |-> TRUE, value |-> Unbound]
              ELSE [raised |-> FALSE,
                    value |-> CalcLotSize(args.DynamicLotSize, args.AccountEquity,
                                          args.EquityPercent10, args.StopLoss,
                                          args.FixedLotSize)]
    /\ UNCHANGED << args, engineVars >>

LotInit ==
    /\ EngineIdle
    /\ args \in LotArgs
    /\ ret = Unbound

LotNext == CalcLotSizeCall

LotSpec == LotInit /\ [][LotNext]_vars

\* ------------------------------------------------------- the statistics
\* A row of an order book as the statistics read it: type, entry_time,
\* exit_time, profit and pips (NaN when undefined) and Balance.
\* comparisons of a float with 0; every comparison with NaN is False
GE0(p) == ~IsNaN(p) /\ Val(p) >= 0
\* a zero taken for a win
GT0OrZero(p) == ~IsNaN(p) /\ Val(p) >= 0

\* trade['profit'] > 0
GT0(p) == ~IsNaN(p) /\ Val(p) > 0
LT0(p) == ~IsNaN(p) /\ Val(p) < 0
LE0(p) == ~IsNaN(p) /\ Val(p) <= 0

\* Series.sum(): the NaN entries are skipped
RECURSIVE SumColumn(_, _, _)
SumColumn(rows, col, i) ==
    IF i = 0 THEN 0
    ELSE SumColumn(rows, col, i - 1) + (IF IsNaN(rows[i][col]) THEN 0 ELSE Val(rows[i][col]))

\* rows.loc[mask, col].sum()
ProfitIsGE0(t) == GE0(t.profit)
ProfitIsGT0(t) == GT0(t.profit)
ProfitIsLT0(t) == LT0(t.profit)
ProfitIsLE0(t) == LE0(t.profit)
Total(rows, col) == SumColumn(rows, col, Len(rows))

\* signal[signal['type'] != 'Balance']
IsTrade(t) == t.type # "Balance"
TradesOf(signal) == SelectSeq(signal, IsTrade)

\* the loop of max_consecutive_wins, over the first i trades
RECURSIVE WinsLoop(_, _)
WinsLoop(trades, i) ==
    IF i = 0
    THEN [max_streak |-> 0, current_streak |-> 0,
          current_streak_profit |-> 0, max_streak_profit |-> 0]
    ELSE LET st == WinsLoop(trades, i - 1)
         IN  IF GT0(trades[i].profit)
             THEN IF st.current_streak + 1 > st.max_streak
                  THEN [max_streak |-> st.current_streak + 1,
                        current_streak |-> st.current_streak + 1,
                        current_streak_profit
                            |-> st.current_streak_profit + Val(trades[i].profit),
                        max_streak_profit
                            |-> st.current_streak_profit + Val(trades[i].profit)]
                  ELSE [st EXCEPT !.current_streak = @ + 1,
                                  !.current_streak_profit = @ + Val(trades[i].profit)]
             ELSE [st EXCEPT !.current_streak = 0, !.current_streak_profit = 0]

\* (max_streak, max_streak_profit)
max_consecutive_wins(trades) ==
    << WinsLoop(trades, Len(trades)).max_streak,
       WinsLoop(trades, Len(trades)).max_streak_profit >>

\* the loop of max_consecutive_profit, over the first i trades
RECURSIVE ProfitLoop(_, _)
ProfitLoop(trades, i) ==
    IF i = 0
    THEN [max_profit |-> 0, max_profit_trades |-> 0,
          current_profit |-> 0, current_count |-> 0]
    ELSE LET st == ProfitLoop(trades, i - 1)
         IN  IF GT0(trades[i].profit)
             THEN IF st.current_profit + Val(trades[i].profit) > st.max_profit
                  THEN [max_profit |-> st.current_profit + Val(trades[i].profit),
                        max_profit_trades |-> st.current_count + 1,
                        current_profit |-> st.current_profit + Val(trades[i].profit),
                        current_count |-> st.current_count + 1]
                  ELSE [st EXCEPT !.current_profit = @ + Val(trades[i].profit),
                                  !.current_count = @ + 1]
             ELSE [st EXCEPT !.current_profit = 0, !.current_count = 0]

\* the accumulation carried across a trade that is not a win
max_consecutive_profitNoReset(trades) ==
    LET wins == SelectSeq(trades, ProfitIsGT0)
    IN  << Total(wins, "profit"), Len(wins) >>

\* (max_profit, max_profit_trades)
max_consecutive_profit(trades) ==
    << ProfitLoop(trades, Len(trades)).max_profit,
       ProfitLoop(trades, Len(trades)).max_profit_trades >>

\* Series.max() and Series.min(): the NaN entries are skipped, NaN when
\* nothing is left
Numbers(rows, col) == { Val(rows[i][col]) : i \in { j \in 1..Len(rows) : ~IsNaN(rows[j][col]) } }
MaxOf(S) == IF S = {} THEN NaN ELSE Num(CHOOSE x \in S : \A y \in S : y <= x)
MinOf(S) == IF S = {} THEN NaN ELSE Num(CHOOSE x \in S : \A y \in S : x <= y)

\* trades.sort_values(by="entry_time"): the orders the sort may leave rows
\* of equal entry_time in
IsPermutation(f, n) == \A i \in 1..n : \E j \in 1..n : f[j] = i
SortedByEntry(trades) ==
    { [i \in 1..Len(trades) |-> trades[f[i]]] :
        f \in { g \in [1..Len(trades) -> 1..Len(trades)] :
                  /\ IsPermutation(g, Len(trades))
                  /\ \A i \in 1..(Len(trades) - 1) :
                        trades[g[i]].entry_time <= trades[g[i + 1]].entry_time } }

Max2(a, b) == IF a > b THEN a ELSE b

\* the loop of get_trading_activity over intervals[1:], after i intervals
RECURSIVE MergeLoop(_, _)
MergeLoop(intervals, i) ==
    IF i = 1
    THEN [merged_intervals |-> << >>, current_start |-> intervals[1].entry_time,
          current_end |-> intervals[1].exit_time]
    ELSE LET st == MergeLoop(intervals, i - 1)
         IN  IF intervals[i].entry_time <= st.current_end
             THEN [st EXCEPT !.current_end = Max2(@, intervals[i].exit_time)]
             ELSE [merged_intervals |-> Append(st.merged_intervals,
                                               << st.current_start, st.current_end >>),
                   current_start |-> intervals[i].entry_time,
                   current_end |-> intervals[i].exit_time]

\* every interval kept as it is, none merged
MergedIntervalsUnmerged(intervals) ==
    [i \in 1..Len(intervals) |-> << intervals[i].entry_time, intervals[i].exit_time >>]

\* merged_intervals when the loop is over and the last interval is added
MergedIntervals(intervals) ==
    Append(MergeLoop(intervals, Len(intervals)).merged_intervals,
           << MergeLoop(intervals, Len(intervals)).current_start,
              MergeLoop(intervals, Len(intervals)).current_end >>)

RECURSIVE SumDurations(_, _)
SumDurations(m, i) == IF i = 0 THEN 0 ELSE SumDurations(m, i - 1) + (m[i][2] - m[i][1])

\* temps_total_actiu and durada_total, in minutes, for the sorted trades;
\* the percentage is temps_total_actiu / durada_total * 100, and the division
\* raises ZeroDivisionError when durada_total is 0
Activity(m, sorted) ==
    [merged_intervals |-> m,
     temps_total_actiu |-> SumDurations(m, Len(m)),
     durada_total |-> Val(MaxOf(Numbers([i \in 1..Len(sorted) |->
                                            [t |-> Num(sorted[i].exit_time)]], "t")))
                      - sorted[1].entry_time,
     raised |-> Val(MaxOf(Numbers([i \in 1..Len(sorted) |->
                                      [t |-> Num(sorted[i].exit_time)]], "t")))
                = sorted[1].entry_time]

\* intervals[0] raises IndexError when there is no trade
get_trading_activity(sorted) ==
    IF Len(sorted) = 0
    THEN [merged_intervals |-> << >>, temps_total_actiu |-> 0, durada_total |-> 0,
          raised |-> TRUE]
    ELSE Activity(MergedIntervals(sorted), sorted)

\* the month a time falls in, counted from 1970-01 (1970 and 1971 have no
\* leap day)
DaysInMonth == << 31, 28, 31, 30, 31, 30, 31, 31, 30, 31, 30, 31 >>
RECURSIVE MonthFrom(_, _)
MonthFrom(day, m) ==
    IF day < DaysInMonth[(m % 12) + 1] THEN m
    ELSE MonthFrom(day - DaysInMonth[(m % 12) + 1], m + 1)
MonthOf(t) == MonthFrom(DateOf(t), 0)

Times(rows, col) == { rows[i][col] : i \in 1..Len(rows) }
Earliest(S) == CHOOSE x \in S : \A y \in S : x <= y
Latest(S) == CHOOSE x \in S : \A y \in S : y <= x

\* pd.date_range(entry_time.min().replace(day=1), exit_time.max().replace(day=1), freq="MS")
date_range(signal) ==
    LET first == MonthOf(Earliest(Times(signal, "entry_time")))
        last == MonthOf(Latest(Times(signal, "exit_time")))
    IN  [i \in 1..(IF last >= first THEN last - first + 1 ELSE 0) |-> first + i - 1]

\* range(len(date_range)-1): the months the loop visits
MonthsWalked(dr) == IF Len(dr) = 0 THEN 0 ELSE Len(dr) - 1

\* the rows of signal that exit in month m and are no 'Balance' row, as
\* positions; temp.Balance.values[-1] is the Balance of the last to exit
ExitsIn(signal, m) ==
    { j \in 1..Len(signal) : MonthOf(signal[j].exit_time) = m /\ IsTrade(signal[j]) }
LastToExit(signal, S) ==
    CHOOSE j \in S : \A h \in S :
        signal[h].exit_time < signal[j].exit_time
        \/ (signal[h].exit_time = signal[j].exit_time /\ h <= j)

\* the loop of get_monthly_returns after the first i months: the rows of
\* monthly_returns, (1 + return_month/100) kept as the fraction num/den (NaN
\* when a Balance is NaN), and previous_balance
RECURSIVE MonthLoop(_, _, _)
MonthLoop(signal, dr, i) ==
    IF i = 0
    THEN [monthly_returns |-> << >>, previous_balance |-> signal[1].Balance]
    ELSE LET st == MonthLoop(signal, dr, i - 1)
             rows == ExitsIn(signal, dr[i])
         IN  IF rows # {}
             THEN LET last_balance == signal[LastToExit(signal, rows)].Balance
                  IN  [monthly_returns |->
                          Append(st.monthly_returns,
                                 [date |-> dr[i],
                                  growth |-> IF IsNaN(last_balance) \/ IsNaN(st.previous_balance)
                                             THEN NaN
                                             ELSE Num([num |-> Val(last_balance),
                                                       den |-> Val(st.previous_balance)])]),
                       previous_balance |-> last_balance]
             ELSE [st EXCEPT !.monthly_returns =
                                 Append(@, [date |-> dr[i],
                                            growth |-> Num([num |-> 1, den |-> 1])])]

\* (1 + monthly_pivot/100).prod(axis=1) and the product over the years: the
\* product of the months' factors
RECURSIVE Chain(_, _)
Chain(mr, i) ==
    IF i = 0 THEN Num([num |-> 1, den |-> 1])
    ELSE LET c == Chain(mr, i - 1)
         IN  IF IsNaN(c) \/ IsNaN(mr[i].growth) THEN NaN
             ELSE Num([num |-> Val(c).num * Val(mr[i].growth).num,
                       den |-> Val(c).den * Val(mr[i].growth).den])

\* monthly_pivot.columns = ["Jan", ..., "Dec"] raises ValueError unless the
\* pivot has a column for each of the twelve months
PivotRaises(mr) == { mr[i].date % 12 : i \in 1..Len(mr) } # 0..11

\* the table's months and 1 + return_overall/100
monthly_table(signal, n) ==
    LET mr == MonthLoop(signal, date_range(signal), n).monthly_returns
    IN  IF PivotRaises(mr)
        THEN [fn |-> "get_monthly_returns", raised |-> TRUE]
        ELSE [fn |-> "get_monthly_returns", raised |-> FALSE,
              months |-> { mr[i].date : i \in 1..Len(mr) },
              buckets |-> [i \in 1..Len(mr) |-> ExitsIn(signal, mr[i].date)],
              overall |-> Chain(mr, Len(mr))]

get_monthly_returns(signal) == monthly_table(signal, MonthsWalked(date_range(signal)))

HasType(ty, rows) == LET Is(t) == t.type = ty IN Len(SelectSeq(rows, Is))

\* trades_per_week = len(trades) / ((date_last_trade - signal.entry_time.min()).days / 7)
\* raises ZeroDivisionError when less than a day lies between the two
TradesPerWeekRaises(signal, trades) ==
    DateOf(Max2(Latest(Times(trades, "entry_time")), Latest(Times(trades, "exit_time")))
           - Earliest(Times(signal, "entry_time"))) = 0

\* the cells of the table get_statistics draws, for the trades in the order
\* sort_values left them in
statistics_table(signal, trades, sorted) ==
    IF get_trading_activity(sorted).raised \/ TradesPerWeekRaises(signal, trades)
    THEN [fn |-> "get_statistics", raised |-> TRUE]
    ELSE [fn |-> "get_statistics", raised |-> FALSE,
          total_trades |-> Len(trades),
          profit_trades |-> Len(SelectSeq(trades, ProfitIsGE0)),
          loss_trades |-> Len(trades) - Len(SelectSeq(trades, ProfitIsGE0)),
          best_trade |-> MaxOf(Numbers(trades, "profit")),
          worst_trade |-> MinOf(Numbers(trades, "profit")),
          gross_profit |-> Total(SelectSeq(trades, ProfitIsGE0), "profit"),
          gross_profit_pips |-> Total(SelectSeq(trades, ProfitIsGE0), "pips"),
          gross_loss |-> Total(SelectSeq(trades, ProfitIsLT0), "profit"),
          gross_loss_pips |-> Total(SelectSeq(trades, ProfitIsLT0), "pips"),
          max_wins |-> max_consecutive_wins(trades),
          max_profit |-> max_consecutive_profit(trades),
          trading_activity |-> get_trading_activity(sorted),
          long_trades |-> HasType("Long", trades),
          short_trades |-> HasType("Short", trades)]

\* the counts and sums of the dictionary get_statistics_from_book returns
\* (year = None)
get_statistics_from_book(book_temp) ==
    [fn |-> "get_statistics_from_book", raised |-> FALSE,
     TotalNetProfit |-> Total(book_temp, "profit"),
     TotalTrades |-> Len(book_temp),
     LongTrades |-> HasType("Long", book_temp),
     ShortTrades |-> HasType("Short", book_temp),
     GrossProfit |-> Total(SelectSeq(book_temp, ProfitIsGT0), "profit"),
     GrossLoss |-> Total(SelectSeq(book_temp, ProfitIsLT0), "profit"),
     ProfitTrades |-> Len(SelectSeq(book_temp, ProfitIsGT0)),
     LossTrades |-> Len(SelectSeq(book_temp, ProfitIsLE0)),
     LargestProfitTrade |-> MaxOf(Numbers(book_temp, "profit")),
     LargestLosstrade |-> MinOf(Numbers(book_temp, "profit"))]

\* ---------------------------------------------------------- the drawdowns
\* A quotient of two floats is kept as the pair of its terms; the balances of
\* the books are positive or NaN, so no divisor is zero or negative.
FracLE(a, b) == a.num * b.den <= b.num * a.den
FracEq(a, b) == a.num * b.den = b.num * a.den

\* order_book['Balance'].values
BalanceOf(order_book) == [i \in 1..Len(order_book) |-> order_book[i].Balance]

\* np.maximum.accumulate(balance)[i]: NaN from the first NaN on
RECURSIVE RunningMax(_, _)
RunningMax(balance, i) ==
    IF i = 1 THEN balance[1]
    ELSE IF IsNaN(RunningMax(balance, i - 1)) \/ IsNaN(balance[i]) THEN NaN
    ELSE Num(Max2(Val(RunningMax(balance, i - 1)), Val(balance[i])))

\* every balance measured from the highest balance of the whole book
DrawdownsFromTop(balance) ==
    { [num |-> Val(balance[i]) - Val(RunningMax(balance, Len(balance))),
       den |-> Val(RunningMax(balance, Len(balance)))] : i \in 1..Len(balance) }

\* drawdowns = (balance - running_max) / running_max, where no balance is NaN
Drawdowns(balance) ==
    { [num |-> Val(balance[i]) - Val(RunningMax(balance, i)),
       den |-> Val(RunningMax(balance, i))] : i \in 1..Len(balance) }

\* abs(drawdowns.min()): min() of an empty array raises ValueError, and is
\* NaN when a balance is NaN
calculate_max_drawdown(order_book) ==
    IF Len(order_book) = 0 THEN [raised |-> TRUE, value |-> Unbound]
    ELSE IF \E i \in 1..Len(order_book) : IsNaN(order_book[i].Balance)
    THEN [raised |-> FALSE, value |-> NaN]
    ELSE LET max_dd == CHOOSE d \in Drawdowns(BalanceOf(order_book)) :
                          \A e \in Drawdowns(BalanceOf(order_book)) : FracLE(d, e)
         IN  [raised |-> FALSE,
              value |-> Num([num |-> IF max_dd.num < 0 THEN 0 - max_dd.num ELSE max_dd.num,
                             den |-> max_dd.den])]

\* net_profit / (max_dd * order_book['Balance'].iloc[0]), float('inf') when
\* max_dd == 0; NaN when max_dd or the first balance is NaN
calculate_recovery_factor(order_book) ==
    LET max_dd == calculate_max_drawdown(order_book)
    IN  IF max_dd.raised THEN [raised |-> TRUE, value |-> Unbound]
        ELSE IF IsNaN(max_dd.value) THEN [raised |-> FALSE, inf |-> FALSE, value |-> NaN]
        ELSE IF Val(max_dd.value).num = 0
        THEN [raised |-> FALSE, inf |-> TRUE, value |-> Unbound]
        ELSE [raised |-> FALSE, inf |-> FALSE,
              value |-> Num([num |-> Total(order_book, "profit") * Val(max_dd.value).den,
                             den |-> Val(max_dd.value).num * Val(order_book[1].Balance)])]

\* one loop of calculate_all_drawdowns over the first i balances: the peak,
\* the largest drawdown_value with its drawdown_percent (second loop: the
\* largest percent alone, kept in percent_max); a comparison with NaN is
\* False and a difference with NaN is NaN; percents are 100 * num / den
RECURSIVE DrawdownLoop(_, _)
DrawdownLoop(balance, i) ==
    IF i = 0
    THEN [peak |-> balance[1], maximal_drawdown_value |-> 0,
          maximal_drawdown_percent |-> [num |-> 0, den |-> 1],
          relative_drawdown_equity |-> [num |-> 0, den |-> 1]]
    ELSE LET st == DrawdownLoop(balance, i - 1)
             peak == IF ~IsNaN(balance[i]) /\ ~IsNaN(st.peak)
                        /\ Val(balance[i]) > Val(st.peak)
                     THEN balance[i] ELSE st.peak
             drawdown_value == IF IsNaN(peak) \/ IsNaN(balance[i]) THEN NaN
                               ELSE Num(Val(peak) - Val(balance[i]))
             drawdown_percent == IF ~IsNaN(peak) /\ Val(peak) > 0
                                 THEN IF IsNaN(drawdown_value) THEN NaN
                                      ELSE Num([num |-> Val(drawdown_value),
                                                den |-> Val(peak)])
                                 ELSE Num([num |-> 0, den |-> 1])
             larger == ~IsNaN(drawdown_value)
                       /\ Val(drawdown_value) > st.maximal_drawdown_value
         IN  [peak |-> peak,
              maximal_drawdown_value |-> IF larger THEN Val(drawdown_value)
                                         ELSE st.maximal_drawdown_value,
              maximal_drawdown_percent |-> IF larger THEN Val(drawdown_percent)
                                           ELSE st.maximal_drawdown_percent,
              relative_drawdown_equity
                  |-> IF ~IsNaN(drawdown_percent)
                         /\ ~FracLE(Val(drawdown_percent), st.relative_drawdown_equity)
                      THEN Val(drawdown_percent) ELSE st.relative_drawdown_equity]

\* absolute_drawdown = max(0, initial_balance - np.min(balance)); np.min is
\* NaN when a balance is NaN, and max(0, NaN) is 0
absolute_drawdown(balance) ==
    IF \E i \in 1..Len(balance) : IsNaN(balance[i]) THEN 0
    ELSE Max2(0, Val(balance[1]) - Val(MinOf(Numbers([i \in 1..Len(balance) |->
                                                       [b |-> balance[i]]], "b"))))

\* the relative by equity drawdown taken at the largest drawdown in value
calculate_all_drawdownsByValue(order_book) ==
    IF Len(order_book) = 0 THEN [raised |-> TRUE]
    ELSE LET balance == BalanceOf(order_book)
             st == DrawdownLoop(balance, Len(balance))
         IN  [raised |-> FALSE,
              maximal_drawdown_value |-> st.maximal_drawdown_value,
              maximal_drawdown_percent |-> st.maximal_drawdown_percent,
              relative_drawdown_balance
                  |-> IF ~IsNaN(balance[1]) /\ Val(balance[1]) > 0
                      THEN [num |-> absolute_drawdown(balance), den |-> Val(balance[1])]
                      ELSE [num |-> 0, den |-> 1],
              relative_drawdown_equity |-> st.maximal_drawdown_percent]

\* the dictionary calculate_all_drawdowns returns; balance[0] of an empty
\* book raises IndexError
calculate_all_drawdowns(order_book) ==
    IF Len(order_book) = 0 THEN [raised |-> TRUE]
    ELSE LET balance == BalanceOf(order_book)
             st == DrawdownLoop(balance, Len(balance))
         IN  [raised |-> FALSE,
              maximal_drawdown_value |-> st.maximal_drawdown_value,
              maximal_drawdown_percent |-> st.maximal_drawdown_percent,
              relative_drawdown_balance
                  |-> IF ~IsNaN(balance[1]) /\ Val(balance[1]) > 0
                      THEN [num |-> absolute_drawdown(balance), den |-> Val(balance[1])]
                      ELSE [num |-> 0, den |-> 1],
              relative_drawdown_equity |-> st.relative_drawdown_equity]

\* ---------------------------------------------- the order books they read
\* profits a book can hold: a loss, nothing, two wins, and NaN for a trade
\* get_orders_M1 left unresolved
ProfitValues == { NaN, Num(0 - LossUnit), Num(0), Num(2 * LossUnit), Num(4 * LossUnit) }

\* the Balance column over the rows: book.profit.cumsum() + InitialDeposit
WithBalance(rows, dep) ==
    [i \in 1..Len(rows) |->
        rows[i] @@ [Balance |-> CumSumBalance(rows, dep)[i]]]

\* a book of trades one after the other, two days apart, each held a day
ProfitRow(i, p) ==
    [type |-> IF i % 2 = 1 THEN "Long" ELSE "Short",
     entry_time |-> 2 * (i - 1) * MinutesPerDay,
     exit_time |-> (2 * (i - 1) + 1) * MinutesPerDay,
     profit |-> p, pips |-> IF IsNaN(p) THEN Num(LossUnit) ELSE p]
ProfitBooks ==
    UNION { { WithBalance([i \in 1..n |-> ProfitRow(i, ps[i])], StatDeposit) :
                ps \in [1..n -> ProfitValues] } : n \in 1..MaxTrades }

\* the book of spec section 8: profits +10, +20, -5, +15, +25
ScenarioBook ==
    WithBalance([i \in 1..5 |->
                    ProfitRow(i, Num(<< 10, 20, -5, 15, 25 >>[i]))], StatDeposit)

\* a small account that loses half, recovers and then loses more money but
\* a smaller part of its peak
DrawdownBook ==
    WithBalance([i \in 1..5 |->
                    ProfitRow(i, Num(<< 0, 0 - LossUnit, 4 * LossUnit,
                                        0 - LossUnit, 0 - LossUnit >>[i]))],
                2 * LossUnit)

\* books of trades that overlap, touch or lie apart, in any row order
IntervalRow(e, x) ==
    [type |-> "Long", entry_time |-> e, exit_time |-> x,
     profit |-> Num(2 * LossUnit), pips |-> Num(2 * LossUnit)]
Intervals == { << e, x >> \in (0..MaxTime) \X (0..MaxTime) : e <= x }
IntervalBooks ==
    UNION { { WithBalance([i \in 1..n |-> IntervalRow(iv[i][1], iv[i][2])], StatDeposit) :
                iv \in [1..n -> Intervals] } : n \in 1..MaxIntervals }

\* a signal history over thirteen months and more: the deposit row, then
\* trades that enter and exit on days of January 1970, December 1970,
\* January 1971 and February 1971
MonthDays == { 5, 340, 370, 400 }
MonthRow(e, x, p) ==
    [type |-> "Long", entry_time |-> e * MinutesPerDay, exit_time |-> x * MinutesPerDay,
     profit |-> p, pips |-> p]
DepositRow(dep) ==
    [type |-> "Balance", entry_time |-> 5 * MinutesPerDay, exit_time |-> 5 * MinutesPerDay,
     profit |-> Num(dep), pips |-> NaN, Balance |-> Num(dep)]
MonthSpans == { << e, x >> \in MonthDays \X MonthDays : e < x }
MonthBooks ==
    UNION { { << DepositRow(StatDeposit) >>
              \o [i \in 1..n |->
                    MonthRow(sp[i][1], sp[i][2], ps[i])
                    @@ [Balance |-> Num(StatDeposit
                                        + Total([j \in 1..i |-> [profit |-> ps[j]]], "profit"))]] :
                sp \in { f \in [1..n -> MonthSpans] :
                           \A i \in 1..(n - 1) : f[i][2] <= f[i + 1][2] },
                ps \in [1..n -> { Num(0 - LossUnit), Num(2 * LossUnit) }] } :
            n \in 1..MaxIntervals }

\* ---------------------------------------------------- calls of them
StatCall == IsBound(args) /\ args.fn = "statistics" /\ ret = Unbound
\* a call of a function of metrics.py, which takes any order book
MetricsCall == IsBound(args) /\ args.fn \in {"statistics", "metrics"} /\ ret = Unbound

GetStatistics ==
    /\ StatCall
    /\ \E sorted \in SortedByEntry(TradesOf(args.signal)) :
          ret' = statistics_table(args.signal, TradesOf(args.signal), sorted)
    /\ UNCHANGED << args, engineVars >>

\* the book of get_orders_M1 holds no 'Balance' row
GetStatisticsFromBook ==
    /\ StatCall
    /\ TradesOf(args.signal) = args.signal
    /\ ret' = get_statistics_from_book(args.signal)
    /\ UNCHANGED << args, engineVars >>

MaxConsecutiveWins ==
    /\ MetricsCall
    /\ ret' = [fn |-> "max_consecutive_wins", raised |-> FALSE,
               value |-> max_consecutive_wins(TradesOf(args.signal))]
    /\ UNCHANGED << args, engineVars >>

MaxConsecutiveProfit ==
    /\ MetricsCall
    /\ ret' = [fn |-> "max_consecutive_profit", raised |-> FALSE,
               value |-> max_consecutive_profit(TradesOf(args.signal))]
    /\ UNCHANGED << args, engineVars >>

GetTradingActivity ==
    /\ MetricsCall
    /\ \E sorted \in SortedByEntry(TradesOf(args.signal)) :
          ret' = [fn |-> "get_trading_activity"] @@ get_trading_activity(sorted)
    /\ UNCHANGED << args, engineVars >>

GetMonthlyReturns ==
    /\ StatCall
    /\ ret' = get_monthly_returns(args.signal)
    /\ UNCHANGED << args, engineVars >>

\* the drawdown functions read the book get_orders_M1 returns, which holds
\* no 'Balance' row
CalculateMaxDrawdown ==
    /\ MetricsCall
    /\ TradesOf(args.signal) = args.signal
    /\ ret' = [fn |-> "calculate_max_drawdown"] @@ calculate_max_drawdown(args.signal)
    /\ UNCHANGED << args, engineVars >>

CalculateRecoveryFactor ==
    /\ MetricsCall
    /\ TradesOf(args.signal) = args.signal
    /\ ret' = [fn |-> "calculate_recovery_factor"] @@ calculate_recovery_factor(args.signal)
    /\ UNCHANGED << args, engineVars >>

CalculateAllDrawdowns ==
    /\ MetricsCall
    /\ TradesOf(args.signal) = args.signal
    /\ ret' = [fn |-> "calculate_all_drawdowns"] @@ calculate_all_drawdowns(args.signal)
    /\ UNCHANGED << args, engineVars >>

StatInit ==
    /\ EngineIdle
    /\ \/ \E b \in ProfitBooks \cup {ScenarioBook, DrawdownBook} \cup IntervalBooks \cup MonthBooks :
             args = [fn |-> "statistics", signal |-> b]
       \/ args = [fn |-> "metrics", signal |-> << >>]
    /\ ret = Unbound

StatNext ==
    \/ GetStatistics
    \/ GetStatisticsFromBook
    \/ MaxConsecutiveWins
    \/ MaxConsecutiveProfit
    \/ GetTradingActivity
    \/ GetMonthlyReturns
    \/ CalculateMaxDrawdown
    \/ CalculateRecoveryFactor
    \/ CalculateAllDrawdowns

StatSpec == StatInit /\ [][StatNext]_vars

\* ============================================================ properties
Rows == 1..Len(book)
LogOf(r) == log[r.label]
Done == pc = "done"
AnyFlag(f) == f.SL \/ f.close \/ f.TP
NumTrue(f) == (IF f.SL THEN 1 ELSE 0) + (IF f.close THEN 1 ELSE 0)
              + (IF f.TP THEN 1 ELSE 0)

\* sum of the defined profits of the resolved trades among rows 1..i
RECURSIVE ResolvedProfit(_)
ResolvedProfit(i) ==
    IF i = 0 THEN 0
    ELSE ResolvedProfit(i - 1)
         + (IF LogOf(book[i]).resolved /\ ~IsNaN(book[i].profit)
            THEN Val(book[i].profit) ELSE 0)

\* C1: when get_orders_M1 returns, every resolved trade i has a Balance that
\* is a number and equals InitialDeposit plus the profits of the resolved
\* trades up to and including i.
C1_BalanceOfResolved ==
    Done => \A i \in Rows :
        LogOf(book[i]).resolved =>
            /\ ~IsNaN(Balance[i])
            /\ Balance[i] = Num(InitialDeposit + ResolvedProfit(i))

\* C2: the equity handed to CalcLotSize for an admitted trade is
\* InitialDeposit plus the profits of the resolved trades committed before
\* it, and the running equity stays that number after every commit.
C2_EquityIsRealized ==
    /\ \A j \in 1..Len(log) :
          log[j].admitted =>
              log[j].equity_in
                  = Num(InitialDeposit
                        + ResolvedProfit(Cardinality({i \in Rows : book[i].label < j})))
    /\ pc = "loop" => AccountEquity = Num(InitialDeposit + ResolvedProfit(Len(book)))

\* C3: the volume of every row of the order book is a lot between
\* minLotSize and maxLotSize.
C3_VolumeWithinLimits ==
    \A i \in Rows :
        /\ ~IsNaN(book[i].volume)
        /\ Val(book[i].volume) >= minLotSize
        /\ Val(book[i].volume) <= maxLotSize

\* C4: n_open_trades of a row never exceeds MaxOpenTrades, and with
\* MaxOpenTrades = 1 a candidate whose bar time is before the exit time of
\* the most recent trade gets no row.
C4_OpenTradesCapped ==
    /\ \A i \in Rows : book[i].n_open_trades <= strategy_params.MaxOpenTrades
    /\ strategy_params.MaxOpenTrades = 1 =>
          \A j \in 1..Len(log) :
              (log[j].prev # None /\ log[j].time < log[j].prev[1]) =>
                  /\ ~log[j].admitted
                  /\ \A i \in Rows : book[i].label # j

C4_Witness ==
    /\ Done
    /\ strategy_params.MaxOpenTrades = 1
    /\ Len(book) >= 1
    /\ \E j \in 1..Len(log) :
          /\ log[j].prev # None
          /\ log[j].time < log[j].prev[1]
          /\ ~log[j].admitted

\* C5: a resolved trade exits strictly after it entered.
C5_ExitAfterEntry ==
    \A i \in Rows :
        LogOf(book[i]).resolved => book[i].exit_time[1] > book[i].entry_time

\* a resolved trade whose entry bar already carries an exit condition
C5_Witness ==
    \E i \in Rows :
        /\ LogOf(book[i]).resolved
        /\ AnyFlag(LogOf(book[i]).window[1].flags)
        /\ book[i].exit_time[1] > book[i].entry_time

\* the first row after the entry row of the window that carries an exit
\* condition, as a position in the window (0 when there is none)
FirstHitAfterEntry(w) ==
    IF \E j \in 2..Len(w) : AnyFlag(w[j].flags)
    THEN CHOOSE j \in 2..Len(w) :
            AnyFlag(w[j].flags) /\ \A h \in 2..(j - 1) : ~AnyFlag(w[h].flags)
    ELSE 0

BranchHolds(br, f) ==
    CASE br = "SL" -> f.SL [] br = "close" -> f.close [] br = "TP" -> f.TP
      [] OTHER -> FALSE

\* C6: a resolved trade exits on the first bar after entry that carries an
\* exit condition: its exit time is that bar's time and its exit kind is a
\* condition of that bar.
C6_ExitOnFirstHit ==
    \A i \in Rows :
        LET l == LogOf(book[i])
            first == FirstHitAfterEntry(l.window)
        IN  l.resolved =>
                /\ first # 0
                /\ book[i].exit_time = Num(l.window[first].time)
                /\ BranchHolds(l.branch, l.window[first].flags)

\* the flags of the bar a resolved trade exits on
ClosingFlags(r) ==
    LET w == LogOf(r).window
    IN  w[CHOOSE j \in 1..Len(w) : w[j].time = r.exit_time[1]].flags

\* C7: on the bar that closes a trade the stop wins over the condition/time
\* close, which wins over the target.
C7_TieBreak ==
    \A i \in Rows :
        LET l == LogOf(book[i])
            f == ClosingFlags(book[i])
        IN  l.resolved =>
                /\ f.SL => l.branch = "SL"
                /\ (~f.SL /\ f.close) => l.branch = "close"
                /\ (l.branch = "TP") <=> (f.TP /\ ~f.SL /\ ~f.close)

\* a trade closed on a bar where the stop and the target both hold
C7_Witness ==
    \E i \in Rows :
        /\ LogOf(book[i]).resolved
        /\ ClosingFlags(book[i]).SL
        /\ ClosingFlags(book[i]).TP
        /\ LogOf(book[i]).branch = "SL"

Against(r, dist) ==
    IF r.type = "Long" THEN r.entry_price - dist * PointsPerPip
    ELSE r.entry_price + dist * PointsPerPip
InFavour(r, dist) ==
    IF r.type = "Long" THEN r.entry_price + dist * PointsPerPip
    ELSE r.entry_price - dist * PointsPerPip

\* C8: a stop-loss exit is priced StopLoss pips against the position with
\* pips = -StopLoss, a take-profit exit TakeProfit pips in its favour with
\* pips = +TakeProfit, whatever the prices of the exit bar.
C8_FixedExitPrices ==
    \A i \in Rows :
        LET l == LogOf(book[i])
        IN  /\ (l.resolved /\ l.branch = "SL") =>
                  /\ book[i].exit_price = Num(Against(book[i], Val(l.StopLoss)))
                  /\ book[i].pips = Num(-Val(l.StopLoss) * PointsPerPip)
            /\ (l.resolved /\ l.branch = "TP") =>
                  /\ book[i].exit_price = Num(InFavour(book[i], l.TakeProfit))
                  /\ book[i].pips = Num(l.TakeProfit * PointsPerPip)

\* a Short stopped out
C8_Witness ==
    \E i \in Rows :
        /\ LogOf(book[i]).resolved
        /\ LogOf(book[i]).branch = "SL"
        /\ book[i].type = "Short"
        /\ book[i].exit_price[1] > book[i].entry_price

\* the first row of the window whose close condition (flag or holding time)
\* holds, as a position in the window (0 when there is none)
FirstCloseCondition(w) ==
    IF \E j \in 1..Len(w) : w[j].flags.close
    THEN CHOOSE j \in 1..Len(w) :
            w[j].flags.close /\ \A h \in 1..(j - 1) : ~w[h].flags.close
    ELSE 0

\* C9: a condition/time close exits on the bar right after the triggering
\* bar, at that bar's time and open (plus the spread for a Short), with pips
\* from the entry and exit prices.
C9_CloseOnNextBar ==
    \A i \in Rows :
        LET l == LogOf(book[i])
            trig == FirstCloseCondition(l.window)
        IN  (l.resolved /\ l.branch = "close") =>
                /\ trig # 0
                /\ trig + 1 <= Len(l.window)
                /\ book[i].exit_time = Num(l.window[trig + 1].time)
                /\ book[i].exit_price
                      = Num(l.exit_open
                            + (IF book[i].type = "Short" THEN symbol_info.spread ELSE 0))
                /\ book[i].pips
                      = Num(IF book[i].type = "Long"
                            THEN book[i].exit_price[1] - book[i].entry_price
                            ELSE book[i].entry_price - book[i].exit_price[1])

\* C10: a candidate fails the spacing test exactly when fewer than
\* MinBetweenTrades minutes lie between the most recent exit time and its
\* bar time.
C10_SpacingInMinutes ==
    \A j \in 1..Len(log) :
        log[j].prev # None =>
            ((~log[j].spacing_ok)
                <=> (log[j].time - log[j].prev[1] < log[j].MinBetweenTrades))

\* C11: an admitted trade is resolved exactly when some bar of its lookahead
\* window carries an exit condition; it is left unresolved only when no bar
\* of the window does.
C11_UnresolvedOnlyWithoutExit ==
    \A j \in 1..Len(log) :
        log[j].admitted =>
            (log[j].resolved
                <=> \E h \in 1..Len(log[j].window) : AnyFlag(log[j].window[h].flags))

\* the calendar nights a trade holds, a night after a Wednesday counted three
\* times; day 0 of the time scale is a Thursday, weekday() 3
RECURSIVE WeightedNights(_, _)
WeightedNights(d1, d2) ==
    IF d1 >= d2 THEN 0
    ELSE (IF (d1 + 3) % 7 = 2 THEN 3 ELSE 1) + WeightedNights(d1 + 1, d2)

\* C14: the swap of a resolved trade with a numeric lot is the daily rate
\* times the lot times the nights held, every night between the entry date
\* and the exit date counted once and a night after a Wednesday three times;
\* a trade that enters and exits on the same date has swap 0.
C14_SwapTriplesWednesday ==
    \A i \in Rows :
        (LogOf(book[i]).resolved /\ ~IsNaN(book[i].volume)) =>
            /\ book[i].swap
                  = Num(RoundDiv(WeightedNights(DateOf(book[i].entry_time),
                                                DateOf(book[i].exit_time[1]))
                                   * DailySwapOf(book[i].type, symbol_info)
                                   * Val(book[i].volume), 10))
            /\ DateOf(book[i].entry_time) = DateOf(book[i].exit_time[1])
                  => book[i].swap = Num(0)

\* the bar of data_M1 a trade entered on
EntryBar(r) == data_M1[CHOOSE j \in 1..Len(data_M1) : data_M1[j].time = r.entry_time]
HasEntryPrices == "entry_price_long" \in DOMAIN data_M1[1]

\* C15 as stated: a Long enters at the open plus the spread and a Short at
\* the open; with the entry price columns the recorded entry price is the
\* column's price of the trade's direction.
C15_EntryPriceAsStated ==
    \A i \in Rows :
        LET b == EntryBar(book[i])
        IN  IF HasEntryPrices
            THEN book[i].entry_price
                    = (IF book[i].type = "Long" THEN b.entry_price_long
                       ELSE b.entry_price_short)
            ELSE book[i].entry_price
                    = (IF book[i].type = "Long" THEN b.open + symbol_info.spread
                       ELSE b.open)

\* C15 amended: as stated, except that with the entry price columns a Long
\* enters at the column's price plus the spread.
C15_EntryPrice ==
    \A i \in Rows :
        LET b == EntryBar(book[i])
        IN  IF HasEntryPrices
            THEN book[i].entry_price
                    = (IF book[i].type = "Long"
                       THEN b.entry_price_long + symbol_info.spread
                       ELSE b.entry_price_short)
            ELSE book[i].entry_price
                    = (IF book[i].type = "Long" THEN b.open + symbol_info.spread
                       ELSE b.open)

\* a Long recorded in a run with the entry price columns
C15_Witness ==
    /\ HasEntryPrices
    /\ \E i \in Rows :
          /\ book[i].type = "Long"
          /\ book[i].entry_price # EntryBar(book[i]).open + symbol_info.spread

\* the lot the contract gives, in hundredths of a lot: the raw lot inside
\* the limits, rounded to a whole hundredth
LotOfContract(a) ==
    LET dynamic == a.DynamicLotSize /\ a.StopLoss > 0
        num == IF dynamic THEN Val(a.AccountEquity) * a.EquityPercent10
               ELSE Val(a.FixedLotSize)
        den == IF dynamic THEN 1000 * a.StopLoss ELSE 1
    IN  IF num < minLotSize * den THEN minLotSize
        ELSE IF num > maxLotSize * den THEN maxLotSize
        ELSE RoundDiv(num, den)

\* C13: every call of CalcLotSize returns, without raising, the raw lot
\* (equity * percent / 100 / stop when dynamic and stop > 0, else the fixed
\* lot) put inside the limits and rounded to two decimals; also for zero
\* equity, for a zero or negative stop and with the fixed lot of the shipped
\* strategies.
C13_LotSizeTotal ==
    (IsBound(args) /\ args.fn = "CalcLotSize" /\ IsBound(ret)) =>
        /\ ~ret.raised
        /\ ret.value = Num(LotOfContract(args))

\* ------------------------------------------- properties of the statistics
Returned(fn) == IsBound(args) /\ IsBound(ret) /\ ret.fn = fn /\ ~ret.raised
Called == IF IsBound(args) /\ args.fn \in {"statistics", "metrics"} THEN TradesOf(args.signal) ELSE << >>
Defined(t) == t.profit # NaN
Realized == SelectSeq(Called, Defined)
Wins(rows) == LET W(t) == t.profit # NaN /\ t.profit[1] > 0 IN SelectSeq(rows, W)
Losses(rows) == LET L(t) == t.profit # NaN /\ t.profit[1] <= 0 IN SelectSeq(rows, L)

\* C12: what the statistics functions report for an order book is what they
\* report for its realized trades alone: a trade with undefined profit adds
\* nothing to the total, to the win and loss counts, to the streaks or to
\* the gross profit and loss.
C12_RealizedTradesOnly ==
    /\ Returned("get_statistics") =>
          /\ ret.total_trades = Len(Realized)
          /\ ret.profit_trades + ret.loss_trades = Len(Realized)
          /\ ret.gross_profit = Total(Wins(Realized), "profit")
          /\ ret.gross_loss = Total(Losses(Realized), "profit")
          /\ ret.max_wins = max_consecutive_wins(Realized)
          /\ ret.max_profit = max_consecutive_profit(Realized)
    /\ Returned("get_statistics_from_book") =>
          /\ ret.TotalTrades = Len(Realized)
          /\ ret.ProfitTrades + ret.LossTrades = Len(Realized)
          /\ ret.GrossProfit = Total(Wins(Realized), "profit")
          /\ ret.GrossLoss = Total(Losses(Realized), "profit")
    /\ Returned("max_consecutive_wins") => ret.value = max_consecutive_wins(Realized)
    /\ Returned("max_consecutive_profit") => ret.value = max_consecutive_profit(Realized)

\* C16: over a book of realized trades the wins are the trades with
\* profit > 0 and the losses the trades with profit <= 0 (a zero profit is a
\* loss), and wins + losses is the number of trades.
C16_WinLossPartition ==
    Realized = Called =>
        /\ Returned("get_statistics") =>
              /\ ret.profit_trades = Len(Wins(Called))
              /\ ret.loss_trades = Len(Losses(Called))
              /\ ret.profit_trades + ret.loss_trades = Len(Called)
        /\ Returned("get_statistics_from_book") =>
              /\ ret.ProfitTrades = Len(Wins(Called))
              /\ ret.LossTrades = Len(Losses(Called))
              /\ ret.ProfitTrades + ret.LossTrades = Len(Called)

\* the maximal runs of consecutive trades with profit > 0, as << first, last >>
IsWin(i) == Called[i].profit # NaN /\ Called[i].profit[1] > 0
WinRuns ==
    { r \in (1..Len(Called)) \X (1..Len(Called)) :
        /\ r[1] <= r[2]
        /\ \A i \in r[1]..r[2] : IsWin(i)
        /\ (r[1] = 1 \/ ~IsWin(r[1] - 1))
        /\ (r[2] = Len(Called) \/ ~IsWin(r[2] + 1)) }
RunLength(r) == r[2] - r[1] + 1
RECURSIVE RunProfit(_)
RunProfit(r) ==
    IF r[1] > r[2] THEN 0 ELSE Called[r[1]].profit[1] + RunProfit(<< r[1] + 1, r[2] >>)
IsScenario == IsBound(args) /\ args.fn = "statistics" /\ args.signal = ScenarioBook

\* C17 as stated: max_consecutive_wins returns the length of the longest run
\* of trades with profit > 0 and the summed profit of a run of that length;
\* for the profits +10, +20, -5, +15, +25 it returns 2 and the 40 of the
\* last two trades.
C17_LongestWinStreakAsStated ==
    Returned("max_consecutive_wins") =>
        /\ IF WinRuns = {} THEN ret.value = << 0, 0 >>
           ELSE \E r \in WinRuns :
                   /\ \A q \in WinRuns : RunLength(q) <= RunLength(r)
                   /\ ret.value = << RunLength(r), RunProfit(r) >>
        /\ IsScenario => ret.value = << 2, 40 >>

\* C17 amended: the summed profit is that of the first run of the longest
\* length; for the profits +10, +20, -5, +15, +25 it returns 2 and the 30 of
\* the first two trades.
C17_LongestWinStreak ==
    Returned("max_consecutive_wins") =>
        /\ IF WinRuns = {} THEN ret.value = << 0, 0 >>
           ELSE \E r \in WinRuns :
                   /\ \A q \in WinRuns :
                         RunLength(q) < RunLength(r)
                         \/ (RunLength(q) = RunLength(r) /\ r[1] <= q[1])
                   /\ ret.value = << RunLength(r), RunProfit(r) >>
        /\ IsScenario => ret.value = << 2, 30 >>

\* the call on the book of the scenario has returned
C17_Witness == Returned("max_consecutive_wins") /\ IsScenario /\ ret.value[1] = 2

\* C18: max_consecutive_profit returns the largest summed profit of a
\* maximal run of trades with profit > 0 and the number of trades of a run
\* with that sum, 0 and 0 when no trade has profit > 0; a run ends at every
\* trade that is not a win; for +10, +20, -5, +15, +25 it returns 40 and 2.
C18_BestProfitStreak ==
    Returned("max_consecutive_profit") =>
        /\ IF WinRuns = {} THEN ret.value = << 0, 0 >>
           ELSE \E r \in WinRuns :
                   /\ \A q \in WinRuns : RunProfit(q) <= RunProfit(r)
                   /\ ret.value = << RunProfit(r), RunLength(r) >>
        /\ IsScenario => ret.value = << 40, 2 >>

\* the call has returned for a book whose wins are split by a trade that is
\* not a win
C18_Witness ==
    /\ Returned("max_consecutive_profit")
    /\ Cardinality(WinRuns) >= 2
    /\ ret.value[2] >= 2

\* the trade that spans two trades
UnionTrade(a, b) ==
    [a EXCEPT !.entry_time = Min2(a.entry_time, b.entry_time),
              !.exit_time = Max2(a.exit_time, b.exit_time)]
Overlap(a, b) == a.entry_time <= b.exit_time /\ b.entry_time <= a.exit_time

\* C19: for trades that exit no earlier than they enter, the merged
\* intervals of get_trading_activity are pairwise disjoint and in order,
\* their summed duration is at most last exit - first entry, and two
\* overlapping trades give the active time and the period of the one trade
\* that spans both.
C19_ActivityCountsOnce ==
    (IsBound(args) /\ IsBound(ret) /\ ret.fn = "get_trading_activity"
       /\ \A i \in 1..Len(Called) : Called[i].exit_time >= Called[i].entry_time) =>
        /\ ret.temps_total_actiu <= ret.durada_total
        /\ \A i \in 1..Len(ret.merged_intervals) : \A j \in 1..Len(ret.merged_intervals) :
              i < j => ret.merged_intervals[i][2] < ret.merged_intervals[j][1]
        /\ (Len(Called) = 2 /\ Overlap(Called[1], Called[2])) =>
              /\ ret.temps_total_actiu
                    = get_trading_activity(<< UnionTrade(Called[1], Called[2]) >>).temps_total_actiu
              /\ ret.durada_total
                    = get_trading_activity(<< UnionTrade(Called[1], Called[2]) >>).durada_total
              /\ ret.temps_total_actiu = ret.durada_total

\* two trades, the second inside the first, merged into one interval
C19_Witness ==
    /\ IsBound(args) /\ IsBound(ret) /\ ret.fn = "get_trading_activity"
    /\ Len(Called) = 2
    /\ Called[1].entry_time < Called[2].entry_time
    /\ Called[2].exit_time < Called[1].exit_time
    /\ Len(ret.merged_intervals) = 1
    /\ ~ret.raised

\* the balance after the last trade of a signal history (its rows are in the
\* order of their exits) and the balance the history starts from
FinalBalance == Called[Len(Called)].Balance
StartBalance ==
    IF args.signal[1].type = "Balance" THEN args.signal[1].Balance
    ELSE Num(Val(args.signal[1].Balance) - Val(args.signal[1].profit))

\* C20: the table of get_monthly_returns has every month from the month of
\* the first entry to the month of the last exit, every trade is in the
\* bucket of its exit month, and the chained overall return is the change
\* from the starting balance to the balance after the last trade to exit.
C20_MonthlyReturnsComplete ==
    Returned("get_monthly_returns") =>
        /\ ret.months = { m \in 0..MonthOf(Latest(Times(args.signal, "exit_time"))) :
                            m >= MonthOf(Earliest(Times(args.signal, "entry_time"))) }
        /\ \A j \in 1..Len(args.signal) :
              args.signal[j].type # "Balance" =>
                  \E i \in 1..Len(ret.buckets) : j \in ret.buckets[i]
        /\ ~IsNaN(ret.overall)
        /\ Val(ret.overall).num * Val(StartBalance)
              = Val(ret.overall).den * Val(FinalBalance)

\* ---------------------------------------------- properties of the drawdowns
\* the deposit the book started from: the balance before its first trade
DepositOf(rows) == Val(rows[1].Balance) - Val(rows[1].profit)
LowestBalance(rows) == Val(MinOf(Numbers(rows, "Balance")))

\* C21: for a book of realized trades the absolute drawdown is
\* max(0, initial deposit - min(balance)), so relative_drawdown_balance is that
\* amount as a percentage of the initial deposit, and a losing first trade
\* gives a positive value.
C21_AbsoluteFromDeposit ==
    (Returned("calculate_all_drawdowns") /\ Realized = Called) =>
        FracEq(ret.relative_drawdown_balance,
               [num |-> Max2(0, DepositOf(Called) - LowestBalance(Called)),
                den |-> DepositOf(Called)])

\* C22: for a book of realized trades calculate_recovery_factor returns
\* net_profit / (max_drawdown_proportion * initial deposit), and infinity
\* when the maximum drawdown is exactly zero.
C22_RecoveryOverDeposit ==
    (Returned("calculate_recovery_factor") /\ Realized = Called) =>
        IF Val(calculate_max_drawdown(Called).value).num = 0
        THEN ret.inf
        ELSE /\ ~ret.inf
             /\ FracEq(Val(ret.value),
                       [num |-> Total(Called, "profit")
                                * Val(calculate_max_drawdown(Called).value).den,
                        den |-> Val(calculate_max_drawdown(Called).value).num
                                * DepositOf(Called)])

\* the Balance column is defined, positive and never falls
NonDecreasing(rows) ==
    /\ \A i \in 1..Len(rows) : ~IsNaN(rows[i].Balance) /\ Val(rows[i].Balance) > 0
    /\ \A i \in 1..(Len(rows) - 1) : Val(rows[i].Balance) <= Val(rows[i + 1].Balance)
IsZero(f) == f.num = 0 /\ f.den > 0

\* C23: when the Balance column is positive and monotonically non-decreasing,
\* calculate_max_drawdown returns 0 and the maximal value, the maximal
\* percent, the relative by balance and the relative by equity drawdowns of
\* calculate_all_drawdowns are all 0.
C23_NoDrawdownWhenMonotone ==
    NonDecreasing(Called) =>
        /\ Returned("calculate_max_drawdown") => IsZero(Val(ret.value))
        /\ Returned("calculate_all_drawdowns") =>
              /\ ret.maximal_drawdown_value = 0
              /\ IsZero(ret.maximal_drawdown_percent)
              /\ IsZero(ret.relative_drawdown_balance)
              /\ IsZero(ret.relative_drawdown_equity)

\* calculate_max_drawdown has returned for a book whose balance rose
C23_Witness ==
    /\ Returned("calculate_max_drawdown")
    /\ NonDecreasing(Called)
    /\ Len(Called) >= 2
    /\ Val(Called[1].Balance) < Val(Called[Len(Called)].Balance)

\* the trades span no time: the last exit is the first entry
ZeroSpan(rows) ==
    /\ Len(rows) > 0
    /\ \A i, j \in 1..Len(rows) : rows[i].exit_time = rows[j].entry_time

\* C24: on an order book with no trade get_trading_activity,
\* calculate_max_drawdown, calculate_all_drawdowns, calculate_recovery_factor
\* and the streak functions return a value and do not raise; so does
\* get_trading_activity when the trades span no time.
C24_SentinelOnNoTrades ==
    (IsBound(args) /\ IsBound(ret)) =>
        /\ (Len(Called) = 0
              /\ ret.fn \in {"get_trading_activity", "calculate_max_drawdown",
                              "calculate_all_drawdowns", "calculate_recovery_factor",
                              "max_consecutive_wins", "max_consecutive_profit"})
               => ~ret.raised
        /\ (ZeroSpan(Called) /\ ret.fn = "get_trading_activity") => ~ret.raised

Positive(rows) ==
    \A i \in 1..Len(rows) : ~IsNaN(rows[i].Balance) /\ Val(rows[i].Balance) > 0

\* C30: for a book with positive balances, relative_drawdown_equity of
\* calculate_all_drawdowns is 100 * calculate_max_drawdown of the same book
\* (both kept as the proportion), and maximal_drawdown_percent is never
\* above it.
C30_DrawdownsAgree ==
    (Returned("calculate_all_drawdowns") /\ Positive(Called)) =>
        /\ FracEq(ret.relative_drawdown_equity, Val(calculate_max_drawdown(Called).value))
        /\ FracLE(ret.maximal_drawdown_percent, ret.relative_drawdown_equity)

\* a book whose largest drawdown in money is not its largest in percent
C30_Witness ==
    /\ Returned("calculate_all_drawdowns")
    /\ Positive(Called)
    /\ ~FracLE(ret.relative_drawdown_equity, ret.maximal_drawdown_percent)

\* ------------------------------------------- more properties of the engine
\* C28: a trade committed without an exit is recorded with undefined
\* exit_time, exit_price, swap and pips, never with the values an earlier
\* trade left, and committing it as the first trade of a run does not fail.
C28_OpenTradeHasNoExit ==
    /\ pc # "crashed"
    /\ \A i \in Rows :
          ~LogOf(book[i]).resolved =>
              /\ IsNaN(book[i].exit_time)
              /\ IsNaN(book[i].exit_price)
              /\ IsNaN(book[i].swap)
              /\ IsNaN(book[i].pips)

\* C27: with MinBetweenTrades >= 0 (None counts as 0) every trade enters
\* strictly after the exit of every trade resolved before it, so resolved
\* trades never overlap, and n_open_trades is 1 on every row of the book
\* whatever MaxOpenTrades is.
C27_OneTradeAtATime ==
    MinBetweenOf(strategy_params) >= 0 =>
        /\ \A j \in 1..Len(log) :
              (log[j].admitted /\ log[j].prev # None) => log[j].time > log[j].prev[1]
        /\ \A i \in Rows : \A j \in Rows :
              (i < j /\ LogOf(book[i]).resolved) =>
                  book[j].entry_time > book[i].exit_time[1]
        /\ \A i \in Rows : book[i].n_open_trades = 1

\* MaxOpenTrades is 2, a candidate arrived while a trade was open and was
\* turned away, and a later one was admitted
C27_Witness ==
    /\ pc = "done"
    /\ strategy_params.MaxOpenTrades = 2
    /\ Len(book) >= 2
    /\ \E j \in 1..Len(log) :
          /\ ~log[j].admitted
          /\ log[j].prev # None
          /\ log[j].time < log[j].prev[1]
          /\ log[j].n_orders <= strategy_params.MaxOpenTrades

\* the bar of the history at time t and its close flag for a trade's type
BarAt(t) == data_M1[CHOOSE i \in 1..Len(data_M1) : data_M1[i].time = t]
CloseFlagAt(t, ty) ==
    IF ty = "Long" THEN BarAt(t).cond_close_long ELSE BarAt(t).cond_close_short

\* C26: with a maximum holding time the close condition of a bar of the
\* window holds exactly when the strategy's close flag is set on it or more
\* than MaxMinutesOpenTrade minutes lie between the entry time and the bar,
\* so it first holds on the first such bar, also in a history with gaps.
C26_HoldingTimeInMinutes ==
    \A j \in 1..Len(log) :
        (log[j].admitted /\ strategy_params.MaxMinutesOpenTrade # None) =>
            \A h \in 1..Len(log[j].window) :
                log[j].window[h].flags.close
                    <=> \/ CloseFlagAt(log[j].window[h].time, log[j].type)
                        \/ log[j].window[h].time - log[j].time
                               > strategy_params.MaxMinutesOpenTrade[1]

\* what backtesting.py decides for the j-th candidate of the run; n_orders
\* before the candidate is what the candidate before it left
AdmittedOld(j) ==
    AdmitOld(log[j].time, strategy_params,
             IF j = 1 THEN 1 ELSE log[j - 1].n_orders, log[j].prev)

\* C29: on the same bars, symbol profile and strategy configuration the two
\* generations of get_orders_M1 take the same admission decision for every
\* candidate: as long as they agreed on the candidates before, they agree on
\* the next.
C29_SameAdmission ==
    \A j \in 1..Len(log) :
        (\A i \in 1..(j - 1) : log[i].admitted <=> AdmittedOld(i)) =>
            (log[j].admitted <=> AdmittedOld(j))

\* C25: a candidate whose bar lacks the stop distance of its direction is
\* skipped: it gets no row in the book, and the candidate after it finds the
\* equity and the last exit time as they were.
C25_MissingFieldsSkipped ==
    \A j \in 1..Len(log) :
        IsNaN(log[j].StopLoss) =>
            /\ \A i \in Rows : book[i].label # j
            /\ j < Len(log) =>
                  /\ log[j + 1].equity_in = log[j].equity_in
                  /\ log[j + 1].prev = log[j].prev

====
